---- MODULE Spec2Model ----
(***************************************************************************)
(* Basic-block / control-flow-graph builder of package bblock              *)
(* (analyzer/ccomplexity/bblock/basicblock.go).                            *)
(*                                                                         *)
(* The visitor walks a Go syntax tree; Visit dispatches on the node type,  *)
(* AddBasicBlock creates or updates the block of a source line, and        *)
(* AddSuccessorBlock wires the edges.  GetBasicBlocksFromSourceCode walks  *)
(* the file, numbers the blocks and adds the default sequential edges.     *)
(*                                                                         *)
(* BasicBlock objects live in `heap` (a *BasicBlock is an index into it,   *)
(* Nil is the nil pointer); the Go call stack of Visit invocations is      *)
(* `stack`.  One action is one Visit handler up to its first recursive     *)
(* call (Visit...), or the part of it that runs after its children         *)
(* (Exit...).  A run-time panic (nil dereference) ends the run at          *)
(* pc = "panic".                                                           *)
(***************************************************************************)
EXTENDS Integers, Sequences, FiniteSets, TLC

\* Bound of the general input family: syntax-tree nodes (function
\* declarations and statements) per compilation unit.
MaxNodes == 4

\* Bounds of the flat-switch input family: case clauses per switch and
\* statements per clause body.
MaxClauses == 2
MaxClauseLen == 2

Nil == 0

VARIABLES
    file,         \* the parsed compilation unit: a sequence of declarations
    heap,         \* the BasicBlock objects allocated so far
    basicBlocks,  \* visitor.basicBlocks: line -> *BasicBlock
    lastBlock,    \* visitor.lastBlock
    returnBlock,  \* visitor.returnBlock
    forBlock,     \* visitor.forBlock
    switchBlock,  \* visitor.switchBlock
    stack,        \* active Visit invocations, innermost first
    pc,           \* "walk", "done" or "panic"
    result,       \* the slice GetBasicBlocksFromSourceCode returns
    addLog,       \* observation: the AddBasicBlock calls of the last step
                  \* that hit a line already holding a block
    revisited     \* observation: the blocks updated in place while another
                  \* block held an edge to them

vars == <<file, heap, basicBlocks, lastBlock, returnBlock, forBlock,
          switchBlock, stack, pc, result, addLog, revisited>>

-----------------------------------------------------------------------------
(* Syntax trees.  A node is [t, List, opt, inl]: t the node type, List the *)
(* statements of its body (the clauses of a switch or select), opt the     *)
(* presence of the optional child (IfStmt.Else, FuncDecl.Body), inl        *)
(* whether a function declaration is written on a single source line.      *)

Node(t, list, opt, inl) == [t |-> t, List |-> list, opt |-> opt, inl |-> inl]

Leaf(t) == Node(t, <<>>, FALSE, FALSE)

RECURSIVE SumHeights(_, _)
RECURSIVE Height(_)
\* Number of source lines of a node laid out one statement per line, braces
\* closing on a line of their own, "} else {" sharing the closing line of
\* the if body and an else block that is empty.
Height(n) ==
    CASE n.t \in {"ExprStmt", "ReturnStmt", "GoStmt"} -> 1
      [] n.t = "IfStmt" -> SumHeights(n.List, 1) + (IF n.opt THEN 3 ELSE 2)
      [] n.t \in {"CaseClause", "CommClause"} -> 1 + SumHeights(n.List, 1)
      [] n.t = "FuncDecl" -> IF n.opt /\ ~n.inl THEN SumHeights(n.List, 1) + 2 ELSE 1
      [] OTHER -> SumHeights(n.List, 1) + 2

SumHeights(list, i) ==
    IF i > Len(list) THEN 0 ELSE Height(list[i]) + SumHeights(list, i + 1)

\* Lines a node spans when it starts at line s (inl: everything on line s).
Lines(n, inl) == IF inl THEN 1 ELSE Height(n)

\* token.FileSet line of n.Pos() and of n.End() for a node starting at s.
PosLine(n, s) == s
EndLine(n, s, inl) == s + Lines(n, inl) - 1

\* Start line of the i-th statement of the body of a node starting at s.
RECURSIVE ChildLine(_, _, _, _)
ChildLine(list, i, s, inl) ==
    IF inl THEN s
    ELSE IF i = 1 THEN s + 1
    ELSE ChildLine(list, i - 1, s, inl) + Height(list[i - 1])

\* Lines of IfStmt.Else.Pos() and IfStmt.Else.End() (Else present).
ElsePosLine(n, s, inl) == IF inl THEN s ELSE s + SumHeights(n.List, 1) + 1
ElseEndLine(n, s, inl) == IF inl THEN s ELSE s + SumHeights(n.List, 1) + 2

-----------------------------------------------------------------------------
(* The input family: every compilation unit of function declarations with  *)
(* at most MaxNodes nodes in all.                                          *)

RECURSIVE LeafLists(_)
\* Lists of exactly n statements without children.
LeafLists(n) ==
    IF n = 0 THEN {<<>>}
    ELSE {<<Leaf(p[1])>> \o p[2] :
             p \in {"ExprStmt", "ReturnStmt", "GoStmt"} \X LeafLists(n - 1)}

RECURSIVE Stmts(_)
RECURSIVE Bodies(_)
RECURSIVE ClauseLists(_, _)

\* Statements of exactly n nodes.  Visit never reaches the body of an if
\* statement without else (it panics first) nor the body of a range
\* statement (its default case), so the first comes with an empty body only
\* and the second with bodies of plain statements only.
Stmts(n) ==
    IF n < 1 THEN {}
    ELSE (IF n = 1 THEN {Leaf("ExprStmt"), Leaf("ReturnStmt"), Leaf("GoStmt"),
                         Node("IfStmt", <<>>, FALSE, FALSE)}
                   ELSE {})
         \cup {Node(p[1], p[2], p[1] = "IfStmt", FALSE) :
                   p \in {"IfStmt", "ForStmt"} \X Bodies(n - 1)}
         \cup {Node("RangeStmt", b, FALSE, FALSE) : b \in LeafLists(n - 1)}
         \cup {Node(p[1], p[2], FALSE, FALSE) :
                   p \in {"SwitchStmt", "TypeSwitchStmt"} \X ClauseLists(n - 1, "CaseClause")}
         \cup {Node("SelectStmt", c, FALSE, FALSE) :
                   c \in ClauseLists(n - 1, "CommClause")}

\* Statement lists of exactly n nodes.
Bodies(n) ==
    IF n = 0 THEN {<<>>}
    ELSE UNION {{<<p[1]>> \o p[2] : p \in Stmts(k) \X Bodies(n - k)} : k \in 1..n}

\* Clause lists of exactly n nodes, each clause of type t.
ClauseLists(n, t) ==
    IF n = 0 THEN {<<>>}
    ELSE UNION {{<<Node(t, p[1], FALSE, FALSE)>> \o p[2] :
                    p \in Bodies(k - 1) \X ClauseLists(n - k, t)} : k \in 1..n}

\* Function declarations of exactly n nodes: with a body laid out on
\* several lines, with a body of plain statements written on the line of
\* the declaration ("func f() { return }"), and (n = 1) without a body.
FuncDecls(n) ==
    {Node("FuncDecl", b, TRUE, FALSE) : b \in Bodies(n - 1)}
    \cup {Node("FuncDecl", b, TRUE, TRUE) : b \in LeafLists(n - 1)}
    \cup (IF n = 1 THEN {Node("FuncDecl", <<>>, FALSE, FALSE)} ELSE {})

RECURSIVE DeclLists(_)
\* Declaration lists of exactly n nodes.
DeclLists(n) ==
    IF n = 0 THEN {<<>>}
    ELSE UNION {{<<p[1]>> \o p[2] : p \in FuncDecls(k) \X DeclLists(n - k)} : k \in 1..n}

-----------------------------------------------------------------------------
(* BasicBlock objects and the visitor's memory.  The operators below take  *)
(* and return a memory M: the heap, the fields of the visitor, the value   *)
(* the last AddBasicBlock call returned (ret), whether a nil dereference   *)
(* has ended the run (panic; every later operation is then skipped), and   *)
(* the observation log.                                                    *)

EmptyMap == [k \in {} |-> Nil]

\* A sequential pass that skips five kinds only, RETURN_STMT not among them:
\* C5 does not hold of it.
SkipTypes_WithoutReturn == {"FOR_BODY", "ELSE_CONDITION", "ELSE_BODY",
                            "COMM_CLAUSE", "CASE_CLAUSE"}

SkipTypes == {"FOR_BODY", "ELSE_CONDITION", "ELSE_BODY", "COMM_CLAUSE",
              "CASE_CLAUSE", "RETURN_STMT"}

NewBasicBlock(blockNumber, blockType, endLine) ==
    [Number |-> blockNumber, Type |-> blockType, EndLine |-> endLine,
     LastSuccessor |-> Nil, successor |-> EmptyMap, FunctionName |-> ""]

\* An update that keeps the successors the block had: C4 does not hold of it.
UpdateBasicBlock_KeepSuccessors(basicBlock, newBasicBlock) ==
    [basicBlock EXCEPT !.Number = newBasicBlock.Number,
                       !.Type = newBasicBlock.Type,
                       !.EndLine = newBasicBlock.EndLine,
                       !.FunctionName = newBasicBlock.FunctionName]

\* basicBlock with every field overwritten by newBasicBlock's (the caller
\* never passes nil).
UpdateBasicBlock(basicBlock, newBasicBlock) ==
    [basicBlock EXCEPT !.Number = newBasicBlock.Number,
                       !.Type = newBasicBlock.Type,
                       !.EndLine = newBasicBlock.EndLine,
                       !.LastSuccessor = newBasicBlock.LastSuccessor,
                       !.successor = newBasicBlock.successor,
                       !.FunctionName = newBasicBlock.FunctionName]

Panic(M) == [M EXCEPT !.panic = TRUE]

\* basicBlock.AddSuccessorBlock(successorBlock); a nil receiver or a nil
\* argument is dereferenced and panics.
AddSuccessorBlock(M, basicBlock, successorBlock) ==
    IF M.panic THEN M
    ELSE IF basicBlock = Nil \/ successorBlock = Nil THEN Panic(M)
    ELSE [M EXCEPT !.heap[basicBlock].successor =
                       (M.heap[successorBlock].EndLine :> successorBlock) @@ @,
                   !.heap[basicBlock].LastSuccessor = successorBlock]

\* An AddBasicBlock that stores a fresh block under a line that holds one,
\* instead of updating the block in place: C3 does not hold of it.
AddBasicBlock_Replace(M, blockType, line) ==
    IF M.panic THEN M
    ELSE LET p == Len(M.heap) + 1
         IN  [M EXCEPT !.heap = Append(@, NewBasicBlock(-1, blockType, line)),
                       !.basicBlocks = (line :> p) @@ @,
                       !.lastBlock = p,
                       !.ret = p]

\* v.AddBasicBlock(blockType, position), position on `line`.
AddBasicBlock(M, blockType, line) ==
    IF M.panic THEN M
    ELSE LET basicBlock == NewBasicBlock(-1, blockType, line)
         IN  IF line \in DOMAIN M.basicBlocks
             THEN LET bb == M.basicBlocks[line]
                  IN  [M EXCEPT !.heap[bb] = UpdateBasicBlock(@, basicBlock),
                                !.lastBlock = bb,
                                !.ret = bb]
             ELSE LET p == Len(M.heap) + 1
                  IN  [M EXCEPT !.heap = Append(@, basicBlock),
                                !.basicBlocks = (line :> p) @@ @,
                                !.lastBlock = p,
                                !.ret = p]

\* AddBasicBlock, with a call on a line that already holds a block recorded
\* in the log: the arguments, the value returned, and the heap and the
\* registry before and after the call.
Add(M, blockType, line) ==
    LET R == AddBasicBlock(M, blockType, line)
    IN  IF M.panic \/ line \notin DOMAIN M.basicBlocks THEN R
        ELSE [R EXCEPT !.log = Append(@,
                 [blockType |-> blockType, line |-> line, ret |-> R.ret,
                  heapBefore |-> M.heap, basicBlocksBefore |-> M.basicBlocks,
                  heapAfter |-> R.heap, basicBlocksAfter |-> R.basicBlocks])]

RECURSIVE SortInts(_)
\* sort.Ints of the keys of a map.
SortInts(S) ==
    IF S = {} THEN <<>>
    ELSE LET m == CHOOSE x \in S : \A y \in S : x <= y
         IN  <<m>> \o SortInts(S \ {m})

\* basicBlock.GetSuccessorBlocks(): the successors by ascending key.
GetSuccessorBlocks(M, basicBlock) ==
    LET keys == SortInts(DOMAIN M.heap[basicBlock].successor)
    IN  [i \in 1..Len(keys) |-> M.heap[basicBlock].successor[keys[i]]]

\* v.GetBasicBlocks(): the blocks by ascending line, numbered by rank.
GetBasicBlocks(M) ==
    LET keys == SortInts(DOMAIN M.basicBlocks)
        blocks == [i \in 1..Len(keys) |-> M.basicBlocks[keys[i]]]
    IN  [M EXCEPT !.heap = [p \in DOMAIN M.heap |->
                     IF \E i \in 1..Len(keys) : blocks[i] = p
                     THEN [M.heap[p] EXCEPT !.Number =
                               (CHOOSE i \in 1..Len(keys) : blocks[i] = p) - 1]
                     ELSE M.heap[p]],
                  !.result = blocks]

RECURSIVE SequentialPass(_, _)
\* The loop of GetBasicBlocksFromSourceCode over basicBlocks, from index
\* (1-based here) on.
SequentialPass(M, index) ==
    IF index > Len(M.result) THEN M
    ELSE LET bBlock == M.result[index]
             M1 == IF /\ M.heap[bBlock].Type \notin SkipTypes
                      /\ Len(M.result) > index
                   THEN AddSuccessorBlock(M, bBlock, M.result[index + 1])
                   ELSE M
         IN  SequentialPass(M1, index + 1)

\* GetBasicBlockTypeFromStmt(stmtList): the type, and the index in stmtList
\* of the statement returned (0 for nil).
RECURSIVE GetBasicBlockTypeFromStmt(_, _)
GetBasicBlockTypeFromStmt(stmtList, i) ==
    IF i > Len(stmtList) THEN [type |-> "UNKNOWN", stmt |-> 0]
    ELSE CASE stmtList[i].t = "ReturnStmt" -> [type |-> "RETURN_STMT", stmt |-> i]
           [] stmtList[i].t = "CaseClause" -> [type |-> "CASE_CLAUSE", stmt |-> i]
           [] stmtList[i].t = "SwitchStmt" -> [type |-> "SWITCH_STATEMENT", stmt |-> i]
           [] OTHER -> GetBasicBlockTypeFromStmt(stmtList, i + 1)

-----------------------------------------------------------------------------
(* The cases of visitor.Visit.  Each handler is split where it visits its  *)
(* children: ...Enter is the code before the loop over the children,       *)
(* ...Leave the code after it.  n is the node, s its first line, inl the   *)
(* layout, F the frame of the invocation (its local variables).            *)

RECURSIVE PreScanReturns(_, _, _, _, _)
\* The first loop of the FuncDecl case: a block for every return statement
\* directly in the function body, at the line of its End().
PreScanReturns(M, n, s, inl, i) ==
    IF i > Len(n.List) THEN M
    ELSE LET M1 == IF n.List[i].t = "ReturnStmt"
                   THEN LET A == Add(M, "RETURN_STMT",
                                     EndLine(n.List[i], ChildLine(n.List, i, s, inl), inl))
                        IN  [A EXCEPT !.returnBlock = A.ret]
                   ELSE M
         IN  PreScanReturns(M1, n, s, inl, i + 1)

FuncDeclEnter(M, n, s, inl, name) ==
    LET A  == Add(M, "FUNCTION_ENTRY", PosLine(n, s))
        M1 == [A EXCEPT !.heap[A.ret].FunctionName = name]
        \* t.Body.List of a declaration without body dereferences nil
        M2 == IF n.opt THEN PreScanReturns(M1, n, s, inl, 1) ELSE Panic(M1)
    IN  IF M2.panic \/ M2.returnBlock # Nil THEN M2
        ELSE LET B == Add(M2, "RETURN_STMT", EndLine(n, s, inl))
             IN  [B EXCEPT !.returnBlock = B.ret]

FuncDeclLeave(M, F) == [M EXCEPT !.returnBlock = Nil]

ReturnStmtCase(M, n, s) ==
    LET A  == Add(M, "RETURN_STMT", PosLine(n, s))
        M1 == [A EXCEPT !.returnBlock = A.ret]
    IN  IF M1.switchBlock # Nil
        THEN AddSuccessorBlock(M1, M1.switchBlock, M1.returnBlock)
        ELSE M1

GoStmtCase(M, n, s) == Add(M, "GO_STATEMENT", PosLine(n, s))

\* The IfStmt case up to the loop over t.Body.List; the frame gets
\* elseConditionBlock and elseBodyBlock.  t.Else.Pos() on a nil Else (no
\* else clause) is a method call on a nil interface and panics.
IfStmtEnter(M, n, s, inl) ==
    LET A == Add(M, "IF_CONDITION", PosLine(n, s))
    IN  IF ~n.opt THEN [M |-> Panic(A), elseConditionBlock |-> Nil, elseBodyBlock |-> Nil]
        ELSE LET B == Add(A, "ELSE_CONDITION", ElsePosLine(n, s, inl))
                 C == Add(B, "ELSE_BODY", ElseEndLine(n, s, inl))
             IN  [M |-> AddSuccessorBlock(C, A.ret, C.ret),
                  elseConditionBlock |-> B.ret, elseBodyBlock |-> C.ret]

IfStmtLeave(M, F) ==
    IF M.returnBlock # Nil
    THEN AddSuccessorBlock(AddSuccessorBlock(M, F.elseConditionBlock, M.returnBlock),
                           F.elseBodyBlock, M.returnBlock)
    ELSE M

\* The ForStmt case up to the loop over the body; tmpReturnBlock is the
\* returnBlock of M.
ForStmtEnter(M, n, s) ==
    LET A  == Add(M, "FOR_STATEMENT", PosLine(n, s))
        M1 == [A EXCEPT !.forBlock = A.ret]
        M2 == IF M1.returnBlock # Nil
              THEN AddSuccessorBlock(M1, M1.forBlock, M1.returnBlock)
              ELSE M1
    IN  [M2 EXCEPT !.returnBlock = M2.forBlock]

ForStmtLeave(M, F) ==
    LET M1 == [M EXCEPT !.returnBlock = F.tmpReturnBlock]
        M2 == IF M1.heap[M1.lastBlock].Type = "FOR_STATEMENT"
              THEN Add(M1, "FOR_BODY", EndLine(F.node, F.line, F.inl))
              ELSE M1
        M3 == IF M2.heap[M2.lastBlock].Type # "RETURN_STMT"
              THEN AddSuccessorBlock(M2, M2.lastBlock, M2.forBlock)
              ELSE M2
    IN  IF M3.panic THEN M3 ELSE [M3 EXCEPT !.forBlock = Nil]

\* The edges of a switch, type switch or select header to and from the
\* enclosing loop header.
LoopEdges(M) ==
    IF M.forBlock # Nil
    THEN AddSuccessorBlock(AddSuccessorBlock(M, M.forBlock, M.switchBlock),
                           M.switchBlock, M.forBlock)
    ELSE M

\* A switch visit that adds no edge from the header to the return target:
\* C6 does not hold of it.
SwitchStmtEnter_NoReturnEdge(M, n, s) ==
    LET A == Add(M, "SWITCH_STATEMENT", PosLine(n, s))
    IN  LoopEdges([A EXCEPT !.switchBlock = A.ret])

SwitchStmtEnter(M, n, s) ==
    LET A  == Add(M, "SWITCH_STATEMENT", PosLine(n, s))
        M1 == LoopEdges([A EXCEPT !.switchBlock = A.ret])
    IN  IF M1.returnBlock # Nil
        THEN AddSuccessorBlock(M1, M1.switchBlock, M1.returnBlock)
        ELSE M1

TypeSwitchStmtEnter(M, n, s) ==
    LET A == Add(M, "SWITCH_STATEMENT", PosLine(n, s))
    IN  LoopEdges([A EXCEPT !.switchBlock = A.ret])

SelectStmtEnter(M, n, s) ==
    LET A == Add(M, "SELECT_STATEMENT", PosLine(n, s))
    IN  LoopEdges([A EXCEPT !.switchBlock = A.ret])

\* The CaseClause and CommClause cases (clauseType CASE_CLAUSE or
\* COMM_CLAUSE) up to the loop over t.Body; ret is caseClause.
ClauseEnter(M, n, s, inl, clauseType) ==
    LET g  == GetBasicBlockTypeFromStmt(n.List, 1)
        A  == IF g.type # "UNKNOWN"
              THEN Add(M, g.type, PosLine(n.List[g.stmt], ChildLine(n.List, g.stmt, s, inl)))
              ELSE Add(M, clauseType, EndLine(n, s, inl))
        M1 == IF A.forBlock # Nil THEN AddSuccessorBlock(A, A.ret, A.forBlock) ELSE A
        M2 == IF M1.switchBlock # Nil
              THEN AddSuccessorBlock(M1, M1.switchBlock, A.ret) ELSE M1
    IN  IF M2.returnBlock # Nil THEN AddSuccessorBlock(M2, A.ret, M2.returnBlock) ELSE M2

ClauseLeave(M, F) ==
    LET M1 == [M EXCEPT !.switchBlock = F.tmpSwitchBlock,
                        !.returnBlock = F.tmpReturnBlock]
        succs == GetSuccessorBlocks(M1, F.caseClause)
        containsForStatement ==
            \E i \in 1..Len(succs) : M1.heap[succs[i]].Type = "FOR_STATEMENT"
    IN  IF /\ M1.returnBlock # Nil
           /\ M1.heap[F.caseClause].Type # "RETURN_STMT"
           /\ M1.heap[F.caseClause].Type # "SWITCH_STATEMENT"
           /\ ~containsForStatement
        THEN AddSuccessorBlock(M1, F.caseClause, M1.returnBlock)
        ELSE M1

-----------------------------------------------------------------------------
(* The state machine.                                                      *)

\* The frame of a Visit invocation that loops over the children of n: the
\* node, its first line and layout, the child to visit next, the handler's
\* local variables, and (observation) the back-references on entry.
Frame(n, s, inl) ==
    [node |-> n, line |-> s, inl |-> inl, next |-> 1,
     tmpReturnBlock |-> Nil, tmpSwitchBlock |-> Nil, caseClause |-> Nil,
     elseConditionBlock |-> Nil, elseBodyBlock |-> Nil,
     entry |-> [forBlock |-> forBlock, switchBlock |-> switchBlock,
                returnBlock |-> returnBlock]]

Cur ==
    [heap |-> heap, basicBlocks |-> basicBlocks, lastBlock |-> lastBlock,
     returnBlock |-> returnBlock, forBlock |-> forBlock,
     switchBlock |-> switchBlock, result |-> result,
     ret |-> Nil, panic |-> FALSE, log |-> <<>>]

\* The block a logged call updated was the successor of another block.
HadIncomingEdge(e) ==
    \E b \in 1..Len(e.heapBefore) :
        /\ b # e.ret
        /\ \E k \in DOMAIN e.heapBefore[b].successor :
               e.heapBefore[b].successor[k] = e.ret

Commit(M) ==
    /\ heap' = M.heap
    /\ basicBlocks' = M.basicBlocks
    /\ lastBlock' = M.lastBlock
    /\ returnBlock' = M.returnBlock
    /\ forBlock' = M.forBlock
    /\ switchBlock' = M.switchBlock
    /\ result' = M.result
    /\ addLog' = M.log
    /\ revisited' = revisited \cup
           {M.log[i].ret : i \in {j \in 1..Len(M.log) : HadIncomingEdge(M.log[j])}}
    /\ file' = file

Top == Head(stack)

\* The running handler is about to call Visit on a child of type t.
Visits(t) ==
    /\ pc = "walk"
    /\ stack # <<>>
    /\ Top.next <= Len(Top.node.List)
    /\ Top.node.List[Top.next].t = t

\* The running handler, of a node of type t, has visited all its children.
Leaves(t) ==
    /\ pc = "walk"
    /\ stack # <<>>
    /\ Top.next > Len(Top.node.List)
    /\ Top.node.t = t

Child == Top.node.List[Top.next]
ChildStart == ChildLine(Top.node.List, Top.next, Top.line, Top.inl)
Advanced == <<[Top EXCEPT !.next = @ + 1]>> \o Tail(stack)

\* The handler ran into its loop over the children (frame G), or panicked.
Entered(M, G) ==
    /\ Commit(M)
    /\ pc' = IF M.panic THEN "panic" ELSE "walk"
    /\ stack' = IF M.panic THEN stack ELSE <<G>> \o Advanced

\* The handler ran to its end and returned to its caller, or panicked.
Returned(M, rest) ==
    /\ Commit(M)
    /\ pc' = IF M.panic THEN "panic" ELSE "walk"
    /\ stack' = IF M.panic THEN stack ELSE rest

FuncName(i) == "f" \o ToString(i)

\* The state in which ast.Walk(visitor, f) is called: a fresh visitor.
Start(f) ==
    /\ file = f
    /\ heap = <<>>
    /\ basicBlocks = EmptyMap
    /\ lastBlock = Nil
    /\ returnBlock = Nil
    /\ forBlock = Nil
    /\ switchBlock = Nil
    /\ stack = <<[node |-> Node("File", file, FALSE, FALSE), line |-> 0,
                  inl |-> FALSE, next |-> 1,
                  tmpReturnBlock |-> Nil, tmpSwitchBlock |-> Nil,
                  caseClause |-> Nil, elseConditionBlock |-> Nil,
                  elseBodyBlock |-> Nil,
                  entry |-> [forBlock |-> Nil, switchBlock |-> Nil,
                             returnBlock |-> Nil]]>>
    /\ pc = "walk"
    /\ result = <<>>
    /\ addLog = <<>>
    /\ revisited = {}

Init == \E n \in 0..MaxNodes : \E f \in DeclLists(n) : Start(f)

VisitFuncDecl ==
    /\ Visits("FuncDecl")
    /\ Entered(FuncDeclEnter(Cur, Child, ChildStart, Child.inl, FuncName(Top.next)),
               Frame(Child, ChildStart, Child.inl))

LeaveFuncDecl ==
    /\ Leaves("FuncDecl")
    /\ Returned(FuncDeclLeave(Cur, Top), Tail(stack))

VisitReturnStmt ==
    /\ Visits("ReturnStmt")
    /\ Returned(ReturnStmtCase(Cur, Child, ChildStart), Advanced)

VisitGoStmt ==
    /\ Visits("GoStmt")
    /\ Returned(GoStmtCase(Cur, Child, ChildStart), Advanced)

\* Any other node type (here an expression statement or a range statement):
\* no case of the switch; Visit returns v to a caller that drops it.
VisitOther ==
    /\ \/ Visits("ExprStmt")
       \/ Visits("RangeStmt")
    /\ Returned(Cur, Advanced)

VisitIfStmt ==
    /\ Visits("IfStmt")
    /\ LET E == IfStmtEnter(Cur, Child, ChildStart, Top.inl)
       IN  Entered(E.M, [Frame(Child, ChildStart, Top.inl) EXCEPT
                            !.elseConditionBlock = E.elseConditionBlock,
                            !.elseBodyBlock = E.elseBodyBlock])

LeaveIfStmt ==
    /\ Leaves("IfStmt")
    /\ Returned(IfStmtLeave(Cur, Top), Tail(stack))

VisitForStmt ==
    /\ Visits("ForStmt")
    /\ Entered(ForStmtEnter(Cur, Child, ChildStart),
               [Frame(Child, ChildStart, Top.inl) EXCEPT
                   !.tmpReturnBlock = returnBlock])

LeaveForStmt ==
    /\ Leaves("ForStmt")
    /\ Returned(ForStmtLeave(Cur, Top), Tail(stack))

VisitSwitchStmt ==
    /\ Visits("SwitchStmt")
    /\ Entered(SwitchStmtEnter(Cur, Child, ChildStart),
               Frame(Child, ChildStart, Top.inl))

VisitTypeSwitchStmt ==
    /\ Visits("TypeSwitchStmt")
    /\ Entered(TypeSwitchStmtEnter(Cur, Child, ChildStart),
               Frame(Child, ChildStart, Top.inl))

VisitSelectStmt ==
    /\ Visits("SelectStmt")
    /\ Entered(SelectStmtEnter(Cur, Child, ChildStart),
               Frame(Child, ChildStart, Top.inl))

\* The switch, type switch and select cases return nil after their loop.
LeaveSwitch ==
    /\ \/ Leaves("SwitchStmt")
       \/ Leaves("TypeSwitchStmt")
       \/ Leaves("SelectStmt")
    /\ Returned(Cur, Tail(stack))

VisitCaseClause ==
    /\ Visits("CaseClause")
    /\ LET M == ClauseEnter(Cur, Child, ChildStart, Top.inl, "CASE_CLAUSE")
       IN  Entered(M, [Frame(Child, ChildStart, Top.inl) EXCEPT
                          !.caseClause = M.ret,
                          !.tmpSwitchBlock = switchBlock,
                          !.tmpReturnBlock = returnBlock])

LeaveCaseClause ==
    /\ Leaves("CaseClause")
    /\ Returned(ClauseLeave(Cur, Top), Tail(stack))

VisitCommClause ==
    /\ Visits("CommClause")
    /\ LET M == ClauseEnter(Cur, Child, ChildStart, Top.inl, "COMM_CLAUSE")
       IN  Entered(M, [Frame(Child, ChildStart, Top.inl) EXCEPT
                          !.caseClause = M.ret,
                          !.tmpSwitchBlock = switchBlock,
                          !.tmpReturnBlock = returnBlock])

LeaveCommClause ==
    /\ Leaves("CommClause")
    /\ Returned(ClauseLeave(Cur, Top), Tail(stack))

\* ast.Walk has returned: GetBasicBlocks and the default sequential edges.
Finish ==
    /\ Leaves("File")
    /\ Commit(SequentialPass(GetBasicBlocks(Cur), 1))
    /\ pc' = "done"
    /\ stack' = <<>>

Next ==
    \/ VisitFuncDecl
    \/ LeaveFuncDecl
    \/ VisitReturnStmt
    \/ VisitGoStmt
    \/ VisitOther
    \/ VisitIfStmt
    \/ LeaveIfStmt
    \/ VisitForStmt
    \/ LeaveForStmt
    \/ VisitSwitchStmt
    \/ VisitTypeSwitchStmt
    \/ VisitSelectStmt
    \/ LeaveSwitch
    \/ VisitCaseClause
    \/ LeaveCaseClause
    \/ VisitCommClause
    \/ LeaveCommClause
    \/ Finish

Spec == Init /\ [][Next]_vars

-----------------------------------------------------------------------------
(* The flat-switch inputs: a function, laid out on several lines, whose    *)
(* body is one switch statement, alone or next to an expression statement, *)
(* with at most MaxClauses case clauses of at most MaxClauseLen expression *)
(* and return statements each; alone in the file, or after a function with *)
(* an empty switch, or before a function with a return, or both.           *)

RECURSIVE FlatLists(_)
FlatLists(n) ==
    IF n = 0 THEN {<<>>}
    ELSE {<<Leaf(p[1])>> \o p[2] :
             p \in {"ExprStmt", "ReturnStmt"} \X FlatLists(n - 1)}

RECURSIVE FlatClauseLists(_)
FlatClauseLists(n) ==
    IF n = 0 THEN {<<>>}
    ELSE {<<Node("CaseClause", p[1], FALSE, FALSE)>> \o p[2] :
             p \in (UNION {FlatLists(k) : k \in 0..MaxClauseLen})
                       \X FlatClauseLists(n - 1)}

FlatFuncs ==
    {Node("FuncDecl",
          p[1] \o <<Node("SwitchStmt", p[2], FALSE, FALSE)>> \o p[3], TRUE, FALSE) :
        p \in {<<>>, <<Leaf("ExprStmt")>>}
                 \X (UNION {FlatClauseLists(n) : n \in 0..MaxClauses})
                 \X {<<>>, <<Leaf("ExprStmt")>>}}

InitFlat ==
    \E f \in FlatFuncs :
        \E before \in {<<>>, <<Node("FuncDecl",
                                     <<Node("SwitchStmt", <<>>, FALSE, FALSE)>>,
                                     TRUE, FALSE)>>} :
            \E after \in {<<>>, <<Node("FuncDecl", <<Leaf("ReturnStmt")>>,
                                        TRUE, FALSE)>>} :
                Start(before \o <<f>> \o after)

NextFlat ==
    \/ VisitFuncDecl
    \/ LeaveFuncDecl
    \/ VisitReturnStmt
    \/ VisitOther
    \/ VisitSwitchStmt
    \/ LeaveSwitch
    \/ VisitCaseClause
    \/ LeaveCaseClause
    \/ Finish

SpecFlat == InitFlat /\ [][NextFlat]_vars

-----------------------------------------------------------------------------
(* Properties.                                                             *)

Blocks == 1..Len(heap)

\* The successors of block b.
Succs(b) == {heap[b].successor[k] : k \in DOMAIN heap[b].successor}

\* C1: traversal never fails: no step of the walk over a valid tree
\* dereferences a missing node or back-reference (no step panics).
C1_TraversalNeverFails == pc # "panic"

\* C2: visiting an if statement without else clause produces an
\* ELSE_CONDITION and an ELSE_BODY block, both at or after the line of the
\* if's closing brace, with the edge IF_CONDITION -> ELSE_BODY; and when the
\* visit ends with a return target active, both have an edge to it.
C2_IfWithoutElse ==
    [][/\ (Visits("IfStmt") /\ ~Child.opt) =>
           \E c, e \in 1..Len(heap') :
               /\ heap'[c].Type = "ELSE_CONDITION"
               /\ heap'[e].Type = "ELSE_BODY"
               /\ heap'[c].EndLine >= EndLine(Child, ChildStart, Top.inl)
               /\ heap'[e].EndLine >= EndLine(Child, ChildStart, Top.inl)
               /\ ChildStart \in DOMAIN basicBlocks'
               /\ heap'[basicBlocks'[ChildStart]].Type = "IF_CONDITION"
               /\ \E k \in DOMAIN heap'[basicBlocks'[ChildStart]].successor :
                      heap'[basicBlocks'[ChildStart]].successor[k] = e
       /\ (Leaves("IfStmt") /\ ~Top.node.opt /\ returnBlock # Nil) =>
           /\ \E k \in DOMAIN heap'[Top.elseConditionBlock].successor :
                  heap'[Top.elseConditionBlock].successor[k] = returnBlock
           /\ \E k \in DOMAIN heap'[Top.elseBodyBlock].successor :
                  heap'[Top.elseBodyBlock].successor[k] = returnBlock
      ]_vars

\* C3: no dangling edges: in the sequence returned, every successor s stored
\* by a block b of the sequence is the block the registry holds under s's
\* end line, belongs to the sequence, and is stored under that end line.
C3_NoDanglingEdges ==
    pc = "done" =>
        \A i \in 1..Len(result) :
            \A k \in DOMAIN heap[result[i]].successor :
                LET s == heap[result[i]].successor[k]
                IN  /\ k = heap[s].EndLine
                    /\ k \in DOMAIN basicBlocks
                    /\ basicBlocks[k] = s
                    /\ \E j \in 1..Len(result) : result[j] = s

\* C3 witness: a returned sequence with an edge to a block that was updated
\* in place after an edge to it had been added.
C3_Witness ==
    /\ pc = "done"
    /\ \E i \in 1..Len(result) : Succs(result[i]) \cap revisited # {}

\* C4: same-line collapse: a call AddBasicBlock(kind, line) on a line that
\* holds a block leaves the registry as it was (one block for the line, none
\* removed), returns the block that was there, leaves that block with the
\* new kind, no successor and no function name, and changes no other block
\* (so the edges pointing to it stay).
C4_SameLineCollapse ==
    \A i \in 1..Len(addLog) :
        LET e == addLog[i]
        IN  /\ e.basicBlocksAfter = e.basicBlocksBefore
            /\ Len(e.heapAfter) = Len(e.heapBefore)
            /\ e.ret = e.basicBlocksBefore[e.line]
            /\ e.heapAfter[e.ret].Type = e.blockType
            /\ e.heapAfter[e.ret].EndLine = e.line
            /\ e.heapAfter[e.ret].successor = EmptyMap
            /\ e.heapAfter[e.ret].FunctionName = ""
            /\ \A b \in 1..Len(e.heapBefore) :
                   b # e.ret => e.heapAfter[b] = e.heapBefore[b]

\* C4 witness: a call that re-visits the line of a block which has outgoing
\* edges and is the successor of another block.
C4_Witness ==
    \E i \in 1..Len(addLog) :
        /\ addLog[i].heapBefore[addLog[i].ret].successor # EmptyMap
        /\ HadIncomingEdge(addLog[i])

\* The six kinds the default sequential pass skips, as the claim lists them.
SixKinds == {"FOR_BODY", "ELSE_CONDITION", "ELSE_BODY", "COMM_CLAUSE",
             "CASE_CLAUSE", "RETURN_STMT"}

\* C5: default sequential edge: the result lists every block by ascending
\* end line; every block but the last whose kind is not one of the six has
\* the next block among its successors; the pass changes the successors of
\* no block of the six kinds nor of the last block, and gives the others
\* nothing but the edge to the next block.
C5_SequentialEdges ==
    [][(pc = "walk" /\ pc' = "done") =>
          /\ {result'[i] : i \in 1..Len(result')} =
                 {basicBlocks[l] : l \in DOMAIN basicBlocks}
          /\ \A i \in 1..(Len(result') - 1) :
                 heap'[result'[i]].EndLine < heap'[result'[i + 1]].EndLine
          /\ \A i \in 1..Len(result') :
                 LET b == result'[i]
                 IN  IF i < Len(result') /\ heap[b].Type \notin SixKinds
                     THEN heap'[b].successor =
                              (heap[result'[i + 1]].EndLine :> result'[i + 1])
                                  @@ heap[b].successor
                     ELSE heap'[b].successor = heap[b].successor
      ]_vars

\* C5 witness: a result in which a RETURN_STMT block is followed by a block
\* it has no edge to, and a block of another kind has its edge to the next.
C5_Witness ==
    /\ pc = "done"
    /\ \E i \in 1..(Len(result) - 1) :
           /\ heap[result[i]].Type = "RETURN_STMT"
           /\ result[i + 1] \notin Succs(result[i])
    /\ \E i \in 1..(Len(result) - 1) :
           /\ heap[result[i]].Type \notin SixKinds
           /\ result[i + 1] \in Succs(result[i])

\* C7: loop closing: when the visit of a for statement ends, the last block
\* produced (a FOR_BODY block at the statement's end line when the body
\* produced none) has an edge to the statement's own FOR_STATEMENT header
\* unless it is a RETURN_STMT, and the header has an edge to the return
\* target that was active on entry.
C7_LoopClosing ==
    [][Leaves("ForStmt") =>
          /\ pc' # "panic"
          /\ LET header == basicBlocks[Top.line]
             IN  /\ heap'[header].Type = "FOR_STATEMENT"
                 /\ lastBlock = header =>
                        /\ heap'[lastBlock'].Type = "FOR_BODY"
                        /\ heap'[lastBlock'].EndLine =
                               EndLine(Top.node, Top.line, Top.inl)
                 /\ heap'[lastBlock'].Type # "RETURN_STMT" =>
                        \E k \in DOMAIN heap'[lastBlock'].successor :
                            heap'[lastBlock'].successor[k] = header
                 /\ Top.entry.returnBlock # Nil =>
                        \E k \in DOMAIN heap'[header].successor :
                            heap'[header].successor[k] = Top.entry.returnBlock
      ]_vars

ScopedNodes == {"ForStmt", "SwitchStmt", "TypeSwitchStmt", "SelectStmt",
                "CaseClause", "CommClause"}

\* C8: scoped back-references: when the visit of a for, switch, type-switch,
\* select, case-clause or communication-clause subtree returns, forBlock
\* and switchBlock hold the values they held when the visit began; so does
\* returnBlock around a for statement and a case or communication clause.
C8_ScopedBackReferences ==
    [][(/\ pc = "walk" /\ stack # <<>>
        /\ Top.node.t \in ScopedNodes
        /\ pc' = "walk" /\ stack' = Tail(stack)) =>
          /\ forBlock' = Top.entry.forBlock
          /\ switchBlock' = Top.entry.switchBlock
          /\ Top.node.t \in {"ForStmt", "CaseClause", "CommClause"} =>
                 returnBlock' = Top.entry.returnBlock
      ]_vars

BlockStmts == {"ReturnStmt", "GoStmt", "IfStmt", "ForStmt", "SwitchStmt",
               "TypeSwitchStmt", "SelectStmt"}

RECURSIVE UnderDefault(_, _, _, _, _)
\* The first lines of the statements of BlockStmts that lie, from the i-th
\* statement of list on, inside a node of a type Visit has no case for
\* (under: list itself lies inside one).
UnderDefault(list, i, s, inl, under) ==
    IF i > Len(list) THEN {}
    ELSE LET c == list[i]
             cl == ChildLine(list, i, s, inl)
         IN  (IF under /\ c.t \in BlockStmts THEN {cl} ELSE {})
             \cup UnderDefault(c.List, 1, cl, inl, under \/ c.t = "RangeStmt")
             \cup UnderDefault(list, i + 1, s, inl, under)

\* First and last line of the i-th function declaration of the file.
FuncLo(i) == ChildLine(file, i, 0, FALSE)
FuncHi(i) == EndLine(file[i], FuncLo(i), file[i].inl)

\* C9: the default arm continues into children: every return, go, if, for,
\* switch, type-switch and select statement nested in a node of an unlisted
\* category inside a function body has its block in the finished graph.
C9_DefaultArmContinues ==
    pc = "done" =>
        \A i \in 1..Len(file) :
            \A l \in UnderDefault(file[i].List, 1, FuncLo(i), file[i].inl, FALSE) :
                l \in DOMAIN basicBlocks

\* C10: no cross-function edges from the walk: before the sequential pass,
\* the source and the target of every edge lie in one function declaration.
C10_NoCrossFunctionEdges ==
    pc = "walk" =>
        \A b \in Blocks :
            \A s \in Succs(b) :
                \E i \in 1..Len(file) :
                    /\ FuncLo(i) <= heap[b].EndLine /\ heap[b].EndLine <= FuncHi(i)
                    /\ FuncLo(i) <= heap[s].EndLine /\ heap[s].EndLine <= FuncHi(i)

\* Function declaration f is a flat switch function: on several lines, its
\* body one switch statement among expression statements, every clause body
\* made of expression and return statements.
IsFlatSwitch(f) ==
    /\ f.opt /\ ~f.inl
    /\ Cardinality({j \in 1..Len(f.List) : f.List[j].t = "SwitchStmt"}) = 1
    /\ \A j \in 1..Len(f.List) :
           \/ f.List[j].t = "ExprStmt"
           \/ /\ f.List[j].t = "SwitchStmt"
              /\ \A k \in 1..Len(f.List[j].List) :
                     /\ f.List[j].List[k].t = "CaseClause"
                     /\ \A m \in 1..Len(f.List[j].List[k].List) :
                            f.List[j].List[k].List[m].t \in {"ExprStmt", "ReturnStmt"}

\* The return statements of a clause body.
Returns(c) == {m \in 1..Len(c.List) : c.List[m].t = "ReturnStmt"}

\* The blocks of the registry whose end line lies in a..b.
BlocksIn(a, b) == {basicBlocks[l] : l \in DOMAIN basicBlocks \cap a..b}

\* The graph of the i-th function, a flat switch function, is as C6 says.
FlatSwitchGraph(i) ==
    LET f == file[i]
        j == CHOOSE j \in 1..Len(f.List) : f.List[j].t = "SwitchStmt"
        swLine == ChildLine(f.List, j, FuncLo(i), FALSE)
        clauses == f.List[j].List
        cs(k) == ChildLine(clauses, k, swLine, FALSE)
        ce(k) == EndLine(clauses[k], cs(k), FALSE)
        all == BlocksIn(FuncLo(i), FuncHi(i))
    IN  /\ {b \in all : heap[b].Type = "FUNCTION_ENTRY"} = BlocksIn(FuncLo(i), FuncLo(i))
        /\ {b \in all : heap[b].Type = "SWITCH_STATEMENT"} = BlocksIn(swLine, swLine)
        /\ Cardinality(BlocksIn(FuncLo(i), FuncLo(i))) = 1
        /\ Cardinality(BlocksIn(swLine, swLine)) = 1
        /\ \A k \in 1..Len(clauses) :
               /\ Cardinality(BlocksIn(cs(k), ce(k))) = 1
               /\ \A b \in BlocksIn(cs(k), ce(k)) :
                      /\ heap[b].Type = IF Returns(clauses[k]) # {}
                                        THEN "RETURN_STMT" ELSE "CASE_CLAUSE"
                      /\ b \in Succs(basicBlocks[swLine])
        /\ \E r \in BlocksIn(FuncHi(i), FuncHi(i)) :
               /\ heap[r].Type = "RETURN_STMT"
               /\ r \in Succs(basicBlocks[swLine])
        /\ Cardinality(all) = 3 + Len(clauses)

====
